---- MODULE Spec2Model ----
(***************************************************************************)
(* A model of scripts/tracker.py: the feed pipeline (fetch, normalise,     *)
(* filter, score, deduplicate, sort) and the output stage of main (report, *)
(* merged data file, manifest).  The copy of the data file to the          *)
(* dashboard path and the console output of main are left out.             *)
(*                                                                         *)
(* Texts are sequences of words; a host name is its sequence of labels; a  *)
(* date string is [iso, day]: iso = TRUE is the ISO text of day number     *)
(* `day`, iso = FALSE is a text date.fromisoformat rejects (such as "n/a").*)
(***************************************************************************)
EXTENDS Integers, Sequences, FiniteSets, TLC

VARIABLES
    today,       \* dt.date.today(), a day number
    argv,        \* the --since-days values of the command line: none or one
    cfg,         \* the Config load_config returned
    enrichment,  \* whether keybert / sentence_transformers / sklearn import
    since_days,  \* main's since_days
    pc,          \* where the run is
    srcIdx,      \* run_pipeline: index of the next source of cfg.sources
    fetchLog,    \* what each fetch so far did: [url, raised, entries]
    collected,   \* run_pipeline: the list `collected`
    items,       \* what run_pipeline returned
    report,      \* report/notebook-tracking.md
    dataFile,    \* report/news.json
    manifest,    \* report/run-manifest.json
    prior,       \* the data file as it was when the run started
    runs         \* number of runs of main started so far

vars == << today, argv, cfg, enrichment, since_days, pc, srcIdx, fetchLog, collected,
           items, report, dataFile, manifest, prior, runs >>

----------------------------------------------------------------------------
(* Bounds of the model *)

Day0 == 1000
MaxEntries == 2
MaxRuns == 2

(* Constants of the program *)

RetentionDays == 365
DefaultSinceDays == 14
DefaultWindowDays == 14

----------------------------------------------------------------------------
(* Sequences *)

Range(s) == { s[i] : i \in 1..Len(s) }

Min2(a, b) == IF a < b THEN a ELSE b

SeqsUpTo(S, n) == UNION { [1..k -> S] : k \in 0..n }

RECURSIVE Flatten(_)
Flatten(ss) == IF ss = << >> THEN << >> ELSE Head(ss) \o Flatten(Tail(ss))

\* s ends with t
EndsWith(s, t) ==
    /\ Len(t) <= Len(s)
    /\ \A i \in 1..Len(t) : s[Len(s) - Len(t) + i] = t[i]

----------------------------------------------------------------------------
(* Words and hosts *)

\* code-point order of the words that survive normalize_text
WordRank(w) ==
    CASE w = "2560x1440" -> 1
      [] w = "2560x1600" -> 2
      [] w = "400nits"   -> 3
      [] w = "500nits"   -> 4
      [] w = "matte"     -> 5
      [] w = "rumor"     -> 6
      [] w = "thinkpad"  -> 7
      [] w = "windows"   -> 8
      [] OTHER           -> 9

RECURSIVE TextLess(_, _)
TextLess(a, b) ==
    IF b = << >> THEN FALSE
    ELSE IF a = << >> THEN TRUE
    ELSE IF WordRank(Head(a)) # WordRank(Head(b))
         THEN WordRank(Head(a)) < WordRank(Head(b))
         ELSE TextLess(Tail(a), Tail(b))

\* CJK_RE
CJK_RE(text) == \E i \in 1..Len(text) : text[i] \in {"U+4E2D"}

\* RES_RE, NITS_RE, MATTE_RE
RES_RE(text) == \E i \in 1..Len(text) : text[i] \in {"2560x1600", "2560x1440"}

NITS_RE(text) == \E i \in 1..Len(text) : text[i] \in {"400nits"}

MATTE_RE(text) == \E i \in 1..Len(text) : text[i] \in {"matte"}

HIGH_SOURCES == { <<"blogs", "windows", "com">>, <<"news", "lenovo", "com">> }

MID_SOURCES ==
    { <<"www", "notebookcheck", "net">>, <<"notebookcheck", "net">>,
      <<"www", "windowscentral", "com">>, <<"windowscentral", "com">>,
      <<"www", "neowin", "net">>, <<"neowin", "net">>,
      <<"techreport", "com">>, <<"slashdot", "org">>, <<"laptopmedia", "com">> }

\* str.lower() of a label
Lower(label) ==
    CASE label = "News"   -> "news"
      [] label = "Lenovo" -> "lenovo"
      [] OTHER            -> label

\* a link is [host, path]; the empty string is NoLink
NoLink == [host |-> << >>, path |-> ""]

hostname(url) == [i \in 1..Len(url.host) |-> Lower(url.host[i])]

----------------------------------------------------------------------------
(* Dates *)

IsoDate(day) == [iso |-> TRUE, day |-> day]

TextDate == [iso |-> FALSE, day |-> 0]

\* order of the date strings: a text starting with a letter sorts above digits
DateStrLess(a, b) ==
    IF a.iso /\ b.iso THEN a.day < b.day ELSE a.iso /\ ~b.iso

to_date_yyyy_mm_dd(e, now) ==
    IF e.published # << >> THEN IsoDate(e.published[1])
    ELSE IF e.updated # << >> THEN IsoDate(e.updated[1])
    ELSE IsoDate(now)

within_window(date_str, since, now) ==
    IF ~date_str.iso THEN TRUE ELSE date_str.day >= now - since

----------------------------------------------------------------------------
(* Text normalisation, filters and score *)

\* re.sub(r"<[^>]+>", " ", s), s.replace(U+00D7, "x"), whitespace collapsed:
\* a tag or a blank leaves no word, the multiplication sign becomes x
NormalizeWord(w) ==
    CASE w \in {"<b>", "  "}       -> << >>
      [] w = "2560(U+00D7)1600"    -> << "2560x1600" >>
      [] OTHER                     -> << w >>

normalize_text(s) == Flatten([i \in 1..Len(s) |-> NormalizeWord(s[i])])

score_for_host_zero(h) ==
    IF h \in HIGH_SOURCES THEN 3
    ELSE IF h \in MID_SOURCES THEN 2
    ELSE 0

score_for_host(h) ==
    IF h \in HIGH_SOURCES THEN 3
    ELSE IF h \in MID_SOURCES THEN 2
    ELSE 1

\* p.search(text) for a pattern that is a literal word
Search(p, text) == \E i \in 1..Len(text) : text[i] = p

matches_any(patterns, text) == \E i \in 1..Len(patterns) : Search(patterns[i], text)

blocked_exact(host, blocklist) == \E i \in 1..Len(blocklist) : host = blocklist[i]

\* host == d or host.endswith("." + d)
blocked(host, blocklist) ==
    \E i \in 1..Len(blocklist) :
        \/ host = blocklist[i]
        \/ Len(host) > Len(blocklist[i]) /\ EndsWith(host, blocklist[i])

\* getattr(e, "summary", "") or content[0]["value"] or ""
RawSummary(e) ==
    IF e.summary # << >> THEN e.summary
    ELSE IF e.content # << >> THEN e.content[1]
    ELSE << >>

\* f"{title} {summary}".strip()
FullText(e) == normalize_text(e.title) \o normalize_text(RawSummary(e))

BonusScore(text) ==
    (IF RES_RE(text) THEN 2 ELSE 0)
    + (IF NITS_RE(text) THEN 1 ELSE 0)
    + (IF MATTE_RE(text) THEN 1 ELSE 0)

\* Item.keywords = None
NoneKeywords == << "None" >>

Item(date, score, title, link, host) ==
    [date |-> date, score |-> score, title |-> title, link |-> link,
     host |-> host, keywords |-> NoneKeywords, cluster_id |-> -1]

\* one pass of the loop over entries: the items it appends to `collected`
ProcessEntry(e, c, since, now) ==
    LET title == normalize_text(e.title)
        h     == hostname(e.link)
        text  == FullText(e)
        date  == to_date_yyyy_mm_dd(e, now)
    IN  IF title = << >> \/ e.link = NoLink THEN << >>
        ELSE IF blocked(h, c.domain_blocklist) THEN << >>
        ELSE IF c.exclude_cjk /\ CJK_RE(text) THEN << >>
        ELSE IF c.exclude_patterns # << >> /\ matches_any(c.exclude_patterns, text)
             THEN << >>
        ELSE IF c.include_patterns # << >> /\ ~matches_any(c.include_patterns, text)
             THEN << >>
        ELSE IF ~within_window(date, since, now) THEN << >>
        ELSE << Item(date, score_for_host(h) + BonusScore(text), title, e.link, h) >>

ProcessEntries(entries, c, since, now) ==
    Flatten([i \in 1..Len(entries) |-> ProcessEntry(entries[i], c, since, now)])

\* try: entries = fetch_feed(url)  except Exception: entries = []
FetchedEntries(result) == IF result.raised THEN << >> ELSE result.entries

----------------------------------------------------------------------------
(* Dictionaries keyed by link, in insertion order, as sequences of values *)

HasLink(d, link) == \E i \in 1..Len(d) : d[i].link = link

Lookup(d, link) == d[CHOOSE i \in 1..Len(d) : d[i].link = link]

\* d[v.link] = v: an existing key keeps its place
DictPut(d, v) ==
    IF HasLink(d, v.link)
    THEN [i \in 1..Len(d) |-> IF d[i].link = v.link THEN v ELSE d[i]]
    ELSE Append(d, v)

\* it.link not in best or it.score > best[it.link].score
ReplacesLast(best, it) == ~HasLink(best, it.link) \/ it.score >= Lookup(best, it.link).score

ReplacesAlways(best, it) == TRUE

Replaces(best, it) == ~HasLink(best, it.link) \/ it.score > Lookup(best, it.link).score

RECURSIVE UniqueFrom(_, _)
UniqueFrom(best, its) ==
    IF its = << >> THEN best
    ELSE UniqueFrom(IF Replaces(best, Head(its)) THEN DictPut(best, Head(its)) ELSE best,
                    Tail(its))

unique_by_link(its) == UniqueFrom(<< >>, its)

----------------------------------------------------------------------------
(* list.sort(key=..., reverse=True): stable, equal keys keep their order *)

\* key (x.score, x.date, x.title)
ItemKeyLess(a, b) ==
    \/ a.score < b.score
    \/ a.score = b.score /\ DateStrLess(a.date, b.date)
    \/ a.score = b.score /\ a.date = b.date /\ TextLess(a.title, b.title)

\* key x.get("date", "")
DateKeyLess(a, b) == DateStrLess(a.date, b.date)

\* where s[i] goes: after the greater keys and after the equal keys before it
ItemSortPosition(s, i) ==
    Cardinality({ j \in 1..Len(s) : ItemKeyLess(s[i], s[j]) })
    + Cardinality({ j \in 1..(i - 1) : ~ItemKeyLess(s[i], s[j]) /\ ~ItemKeyLess(s[j], s[i]) })
    + 1

\* deduped.sort(key=lambda x: (x.score, x.date, x.title), reverse=True)
SortItems(s) ==
    [p \in 1..Len(s) |-> s[CHOOSE i \in 1..Len(s) : ItemSortPosition(s, i) = p]]

DateSortPosition(s, i) ==
    Cardinality({ j \in 1..Len(s) : DateKeyLess(s[i], s[j]) })
    + Cardinality({ j \in 1..(i - 1) : ~DateKeyLess(s[i], s[j]) /\ ~DateKeyLess(s[j], s[i]) })
    + 1

\* new_data.sort(key=lambda x: x.get("date", ""), reverse=True)
SortByDate(s) ==
    [p \in 1..Len(s) |-> s[CHOOSE i \in 1..Len(s) : DateSortPosition(s, i) = p]]

----------------------------------------------------------------------------
(* run_pipeline *)

\* keywords and cluster_id, when the three libraries import: the keyphrases are
\* words of the title; items with the same title share a cluster
Enrich(its) ==
    [i \in 1..Len(its) |->
        [its[i] EXCEPT
            !.keywords = SubSeq(its[i].title, 1, Min2(3, Len(its[i].title))),
            !.cluster_id = IF Len(its) <= 1 THEN 0
                           ELSE (CHOOSE j \in 1..Len(its) :
                                    /\ its[j].title = its[i].title
                                    /\ \A k \in 1..(j - 1) : its[k].title # its[i].title) - 1]]

\* from `collected` to the returned list
FinishPipeline(coll, enrich) ==
    LET deduped == unique_by_link(coll)
    IN  SortItems(IF enrich THEN Enrich(deduped) ELSE deduped)

\* the whole of run_pipeline, given what each fetch did
run_pipeline(c, since, now, results, enrich) ==
    FinishPipeline(
        Flatten([i \in 1..Len(results) |->
                    ProcessEntries(FetchedEntries(results[i]), c, since, now)]),
        enrich)

----------------------------------------------------------------------------
(* The data file.  kind: "absent" (no file), "unreadable" (open, decoding or *)
(* json.load raises), "scalar" (JSON null, true, false or a number),         *)
(* "object" (a JSON object or string: iterating yields no dict), "array".    *)
(* An element of an array is a record with a "link" field, or anything else. *)
(* origin: "tracker" when write_json wrote the file, "other" otherwise;      *)
(* mtime: the day of the last write.                                         *)

File(kind, elems, origin, mtime) ==
    [kind |-> kind, elems |-> elems, origin |-> origin, mtime |-> mtime]

AbsentFile == File("absent", << >>, "other", 0)

\* an array element that is no dict with a link
Junk == [value |-> 0]

\* isinstance(it, dict) and "link" in it
IsLinked(x) == "link" \in DOMAIN x

\* json.load under try/except, then iterating old_data
LoadRaises(f) == f.kind = "scalar"

OldDataNone(f) == << >>

OldData(f) == IF f.kind = "array" THEN f.elems ELSE << >>

RECURSIVE PutAll(_, _)
PutAll(d, vs) == IF vs = << >> THEN d ELSE PutAll(DictPut(d, Head(vs)), Tail(vs))

\* dict(date=..., score=..., ..., keywords=(it.keywords or []), cluster_id=...)
ItemRecord(it) ==
    [date |-> it.date, score |-> it.score, title |-> it.title, link |-> it.link,
     host |-> it.host,
     keywords |-> IF it.keywords = NoneKeywords THEN << >> ELSE it.keywords,
     cluster_id |-> it.cluster_id]

\* seen_links after indexing the history and overlaying the new items
SeenLinksOldWins(old, its) ==
    PutAll([i \in 1..Len(its) |-> ItemRecord(its[i])], SelectSeq(old, IsLinked))

SeenLinks(old, its) ==
    PutAll(PutAll(<< >>, SelectSeq(old, IsLinked)),
           [i \in 1..Len(its) |-> ItemRecord(its[i])])

recent_only_exclusive(x, now) ==
    IF ~x.date.iso THEN TRUE ELSE x.date.day > now - RetentionDays

\* d >= cutoff, True when fromisoformat raises
recent_only(x, now) ==
    IF ~x.date.iso THEN TRUE ELSE x.date.day >= now - RetentionDays

NewData(old, its, now) ==
    LET Recent(x) == recent_only(x, now)
    IN  SortByDate(SelectSeq(SeenLinks(old, its), Recent))

\* write_json: whether it raises, and the file it leaves
write_json(its, f, now) ==
    IF LoadRaises(f)
    THEN [raised |-> TRUE, file |-> f]
    ELSE [raised |-> FALSE,
          file |-> File("array", NewData(OldData(f), its, now), "tracker", now)]

\* the other two artifacts, as the run in progress has left them: "prior" (as the
\* run found it), "partial" (write_text was cut short), "written"
Artifact(status, info) == [status |-> status, info |-> info]

PriorArtifact == Artifact("prior", << >>)

write_markdown(its) == Artifact("written", << >>)

write_manifest(its, since) == Artifact("written", << since >>)

----------------------------------------------------------------------------
(* main *)

\* ap.add_argument("--since-days", type=int, default=14)
parse_since_days(cli) == IF cli = << >> THEN DefaultSinceDays ELSE cli[1]

\* int(args.since_days or cfg.window_days)
main_since_days(arg, window) == IF arg # 0 THEN arg ELSE window

----------------------------------------------------------------------------
(* The world of the runs of main: one configuration, two feeds *)

Entry(title, link, summary, content, published, updated) ==
    [title |-> title, link |-> link, summary |-> summary, content |-> content,
     published |-> published, updated |-> updated]

Config(include, exclude, sources, blocklist, cjk, window) ==
    [include_patterns |-> include, exclude_patterns |-> exclude, sources |-> sources,
     domain_blocklist |-> blocklist, exclude_cjk |-> cjk, window_days |-> window]

LinkLenovo == [host |-> <<"news", "lenovo", "com">>, path |-> "/t16"]
LinkBlog   == [host |-> <<"example", "org">>, path |-> "/post"]
LinkOther  == [host |-> <<"notebookcheck", "net">>, path |-> "/review"]

MainConfig ==
    Config(<<"thinkpad">>, <<"rumor">>, <<"feedA", "feedB">>, << <<"spam", "com">> >>,
           TRUE, DefaultWindowDays)

\* what a feed may serve on day `now`
MainFeeds(now) ==
    LET a == Entry(<<"thinkpad", "matte">>, LinkLenovo, << >>, << >>, <<now>>, << >>)
        b == Entry(<<"thinkpad">>, LinkLenovo, << >>, << >>, <<now - 1>>, << >>)
        c == Entry(<<"thinkpad">>, LinkBlog, << >>, << >>, <<now>>, << >>)
        d == Entry(<<"thinkpad", "rumor">>, LinkBlog, << >>, << >>, <<now>>, << >>)
        o == Entry(<<"thinkpad">>, LinkBlog, << >>, << >>, <<now - RetentionDays>>, << >>)
        p == Entry(<<"thinkpad">>, LinkLenovo, << >>, << >>, <<now - RetentionDays - 1>>, << >>)
    IN  { << >>, <<a>>, <<b>>, <<d, c>>, <<a, c>>, <<c, b>>, <<o, p>> }

FetchResult(url, raised, entries) == [url |-> url, raised |-> raised, entries |-> entries]

\* what the fetch of `url` may do: raise, or return the entries of a feed
FetchResults(url, feeds) ==
    { FetchResult(url, TRUE, << >>) } \cup { FetchResult(url, FALSE, f) : f \in feeds }

\* days between two runs
DayGaps == {0, RetentionDays}

\* the command line: no --since-days, or --since-days 366
CliSinceDays == { << >>, <<RetentionDays + 1>> }

Running == {"pipeline", "write_markdown", "write_json", "write_manifest"}

Ended == {"done", "failed", "killed"}

Init ==
    /\ today = Day0
    /\ argv = << >>
    /\ cfg = MainConfig
    /\ enrichment \in BOOLEAN
    /\ since_days = 0
    /\ pc = "idle"
    /\ srcIdx = 1
    /\ fetchLog = << >>
    /\ collected = << >>
    /\ items = << >>
    /\ report = PriorArtifact
    /\ dataFile = AbsentFile
    /\ manifest = PriorArtifact
    /\ prior = AbsentFile
    /\ runs = 0

\* main up to the call of run_pipeline, started with one of the command lines
StartMain(clis) ==
    /\ pc \in {"idle", "edited"}
    /\ runs < MaxRuns
    /\ \E cli \in clis :
          /\ argv' = cli
          /\ since_days' = main_since_days(parse_since_days(cli), cfg.window_days)
    /\ runs' = runs + 1
    /\ prior' = dataFile
    /\ pc' = "pipeline"
    /\ UNCHANGED << today, cfg, enrichment, srcIdx, fetchLog, collected, items,
                    report, dataFile, manifest >>

StartRun == StartMain(CliSinceDays)

\* items = run_pipeline(cfg, since_days)
RunPipeline ==
    /\ pc = "pipeline"
    /\ \E ra \in FetchResults(cfg.sources[1], MainFeeds(today)),
          rb \in FetchResults(cfg.sources[2], MainFeeds(today)) :
          items' = run_pipeline(cfg, since_days, today, <<ra, rb>>, enrichment)
    /\ pc' = "write_markdown"
    /\ UNCHANGED << today, argv, cfg, enrichment, since_days, srcIdx, fetchLog, collected,
                    report, dataFile, manifest, prior, runs >>

WriteMarkdown ==
    /\ pc = "write_markdown"
    /\ report' = write_markdown(items)
    /\ pc' = "write_json"
    /\ UNCHANGED << today, argv, cfg, enrichment, since_days, srcIdx, fetchLog, collected,
                    items, dataFile, manifest, prior, runs >>

WriteJson ==
    /\ pc = "write_json"
    /\ LET r == write_json(items, dataFile, today)
       IN  /\ dataFile' = r.file
           /\ pc' = IF r.raised THEN "failed" ELSE "write_manifest"
    /\ UNCHANGED << today, argv, cfg, enrichment, since_days, srcIdx, fetchLog, collected,
                    items, report, manifest, prior, runs >>

WriteManifest ==
    /\ pc = "write_manifest"
    /\ manifest' = write_manifest(items, since_days)
    /\ pc' = "done"
    /\ UNCHANGED << today, argv, cfg, enrichment, since_days, srcIdx, fetchLog, collected,
                    items, report, dataFile, prior, runs >>

\* the process is killed (KeyboardInterrupt, power loss): before the step at pc,
\* or inside its write_text, which has truncated the file
Kill ==
    /\ pc \in Running
    /\ pc' = "killed"
    /\ \/ UNCHANGED << report, dataFile, manifest >>
       \/ /\ pc = "write_markdown"
          /\ report' = Artifact("partial", << >>)
          /\ UNCHANGED << dataFile, manifest >>
       \/ /\ pc = "write_json"
          /\ ~LoadRaises(dataFile)
          /\ dataFile' = File("unreadable", << >>, "tracker", today)
          /\ UNCHANGED << report, manifest >>
       \/ /\ pc = "write_manifest"
          /\ manifest' = Artifact("partial", << >>)
          /\ UNCHANGED << report, dataFile >>
    /\ UNCHANGED << today, argv, cfg, enrichment, since_days, srcIdx, fetchLog, collected,
                    items, prior, runs >>

\* the process has ended; some days pass before the next run
Sleep ==
    /\ pc \in Ended
    /\ runs < MaxRuns
    /\ \E gap \in DayGaps : today' = today + gap
    /\ items' = << >>
    /\ report' = PriorArtifact
    /\ manifest' = PriorArtifact
    /\ prior' = dataFile
    /\ pc' = "idle"
    /\ UNCHANGED << argv, cfg, enrichment, since_days, srcIdx, fetchLog, collected,
                    dataFile, runs >>

\* between two runs something else rewrites the data file: damage, or a record
\* of another producer of the store
ForeignRecords(now) ==
    { [date |-> d, score |-> 2, title |-> <<"windows">>, link |-> LinkOther,
       host |-> hostname(LinkOther), keywords |-> << >>, cluster_id |-> -1] :
      d \in {TextDate, IsoDate(now - RetentionDays), IsoDate(now - RetentionDays - 1)} }

EditDataFile ==
    /\ pc = "idle"
    /\ pc' = "edited"
    /\ \/ \E k \in {"unreadable", "scalar", "object"} : dataFile' = File(k, << >>, "other", today)
       \/ dataFile' = File("array", <<Junk>> \o OldData(dataFile), "other", today)
       \/ /\ ~(\E i \in 1..Len(OldData(dataFile)) :
                 IsLinked(dataFile.elems[i]) /\ dataFile.elems[i].link = LinkOther)
          /\ \E x \in ForeignRecords(today) :
                dataFile' = File("array", Append(OldData(dataFile), x), "other", today)
    /\ UNCHANGED << today, argv, cfg, enrichment, since_days, srcIdx, fetchLog, collected,
                    items, report, manifest, prior, runs >>

Next ==
    \/ StartRun
    \/ RunPipeline
    \/ WriteMarkdown
    \/ WriteJson
    \/ WriteManifest
    \/ Kill
    \/ Sleep
    \/ EditDataFile

Spec == Init /\ [][Next]_vars

----------------------------------------------------------------------------
(* run_pipeline step by step: one action per source of cfg.sources, then the *)
(* deduplication, enrichment and sort.  Two worlds run it: two feeds serving  *)
(* up to MaxEntries entries of a small pool, and one feed serving one entry  *)
(* of a large pool under every combination of the filters.                   *)

LinkUpper   == [host |-> <<"News", "Lenovo", "com">>, path |-> "/t16"]
LinkSpam    == [host |-> <<"spam", "com">>, path |-> "/ad"]
LinkSubSpam == [host |-> <<"feeds", "spam", "com">>, path |-> "/ad"]
LinkNoHost  == [host |-> << >>, path |-> "/relative"]

PipelineConfigs ==
    { Config(inc, <<"rumor">>, <<"feedA", "feedB">>, << <<"spam", "com">> >>, TRUE,
             DefaultWindowDays) : inc \in { << >>, <<"thinkpad">> } }

PipelinePool(now) ==
    { Entry(<<"thinkpad">>, LinkBlog, << >>, << >>, <<now>>, << >>),
      Entry(<<"thinkpad", "matte">>, LinkBlog, << >>, << >>, <<now>>, << >>),
      Entry(<<"thinkpad">>, LinkBlog, << >>, << >>, <<now - 1>>, << >>),
      Entry(<<"thinkpad">>, LinkLenovo, << >>, << >>, <<now>>, << >>),
      Entry(<<"rumor">>, LinkLenovo, << >>, << >>, <<now>>, << >>) }

PipelineFeeds(now) == SeqsUpTo(PipelinePool(now), MaxEntries)

EntryConfigs ==
    { Config(inc, exc, <<"feedA">>, blk, cjk, DefaultWindowDays) :
        inc \in { << >>, <<"thinkpad">> },
        exc \in { << >>, <<"rumor">> },
        blk \in { << >>, << <<"spam", "com">> >> },
        cjk \in BOOLEAN }

EntryPool(now, since) ==
    { Entry(t, l, sm, ct, pb, up) :
        t  \in { << >>, <<"<b>">>, <<"thinkpad">>, <<"windows">>,
                 <<"thinkpad", "U+4E2D">>, <<"rumor", "thinkpad">>,
                 <<"thinkpad", "2560(U+00D7)1600">>, <<"<b>", "thinkpad", "matte">> },
        l  \in { NoLink, LinkLenovo, LinkUpper, LinkOther, LinkBlog, LinkSpam,
                 LinkSubSpam, LinkNoHost },
        sm \in { << >>, <<"U+4E2D">>, <<"matte", "400nits">>, <<"rumor", "500nits">> },
        ct \in { << >>, << <<"2560x1440">> >> },
        pb \in { << >>, <<now - since>>, <<now - since - 1>> },
        up \in { << >>, <<now - since - 1>> } }

EntryFeeds(now, since) == { <<e>> : e \in EntryPool(now, since) }

InitRun(configs) ==
    /\ today = Day0
    /\ argv = << >>
    /\ cfg \in configs
    /\ enrichment \in BOOLEAN
    /\ since_days = DefaultSinceDays
    /\ pc = "fetch"
    /\ srcIdx = 1
    /\ fetchLog = << >>
    /\ collected = << >>
    /\ items = << >>
    /\ report = PriorArtifact
    /\ dataFile = AbsentFile
    /\ manifest = PriorArtifact
    /\ prior = AbsentFile
    /\ runs = 1

\* where the loop goes after the fetch of a source: the except clause swallows
AfterFetchPropagates(result) == IF result.raised THEN "failed" ELSE "fetch"

AfterFetch(result) == "fetch"

\* one pass of `for url in cfg.sources`
FetchSource(feeds) ==
    /\ pc = "fetch"
    /\ srcIdx <= Len(cfg.sources)
    /\ \E r \in FetchResults(cfg.sources[srcIdx], feeds) :
          /\ fetchLog' = Append(fetchLog, r)
          /\ pc' = AfterFetch(r)
          /\ collected' = IF AfterFetch(r) = "fetch"
                          THEN collected \o ProcessEntries(FetchedEntries(r), cfg,
                                                           since_days, today)
                          ELSE collected
    /\ srcIdx' = srcIdx + 1
    /\ UNCHANGED << today, argv, cfg, enrichment, since_days, items, report, dataFile,
                    manifest, prior, runs >>

\* the rest of run_pipeline, after the loop
ReturnItems ==
    /\ pc = "fetch"
    /\ srcIdx > Len(cfg.sources)
    /\ items' = FinishPipeline(collected, enrichment)
    /\ pc' = "returned"
    /\ UNCHANGED << today, argv, cfg, enrichment, since_days, srcIdx, fetchLog, collected,
                    report, dataFile, manifest, prior, runs >>

InitPipeline == InitRun(PipelineConfigs)

NextPipeline ==
    \/ FetchSource(PipelineFeeds(today))
    \/ ReturnItems

SpecPipeline == InitPipeline /\ [][NextPipeline]_vars

InitEntry == InitRun(EntryConfigs)

NextEntry ==
    \/ FetchSource(EntryFeeds(today, since_days))
    \/ ReturnItems

SpecEntry == InitEntry /\ [][NextEntry]_vars

----------------------------------------------------------------------------
(* Claims about run_pipeline *)

LinksOf(its) == { its[i].link : i \in 1..Len(its) }

ScoresAt(its, link) == { its[i].score : i \in { j \in 1..Len(its) : its[j].link = link } }

MaxOf(S) == CHOOSE m \in S : \A x \in S : x <= m

\* what identifies an item among those sharing its link
Face(it) == << it.date, it.score, it.title >>

\* C1: after the deduplication the result holds exactly one item per link of
\* `collected`, and its score is the greatest score `collected` has for that link.
C1_DedupKeepsMaxScore ==
    pc = "returned" =>
        /\ LinksOf(items) = LinksOf(collected)
        /\ \A l \in LinksOf(collected) :
              /\ Cardinality({ i \in 1..Len(items) : items[i].link = l }) = 1
              /\ ScoresAt(items, l) = { MaxOf(ScoresAt(collected, l)) }

\* scores 1, 2, 1 on one link: the higher score comes after a lower one and
\* before a lower one
C1_Witness ==
    /\ pc = "returned"
    /\ \E i, j, k \in 1..Len(collected) :
          /\ i < j /\ j < k
          /\ collected[i].link = collected[j].link /\ collected[j].link = collected[k].link
          /\ collected[i].score = 1 /\ collected[j].score = 2 /\ collected[k].score = 1
    /\ \E i \in 1..Len(items) : items[i].score = 2

\* positions in `collected` of the items of a link that carry its greatest score
BestAt(link) ==
    { i \in 1..Len(collected) :
        /\ collected[i].link = link
        /\ collected[i].score = MaxOf(ScoresAt(collected, link)) }

KeptFaces(link) == { Face(items[i]) : i \in { j \in 1..Len(items) : items[j].link = link } }

\* C10 as stated: among the items of a link that tie on the greatest score, the
\* one kept is the last of `collected`.
C10_LastOfTiesKept ==
    pc = "returned" =>
        \A l \in LinksOf(collected) :
            KeptFaces(l) = { Face(collected[MaxOf(BestAt(l))]) }

\* C10, amended: among the items of a link that tie on the greatest score, the
\* one kept is the first of `collected`.
C10_FirstOfTiesKept ==
    pc = "returned" =>
        \A l \in LinksOf(collected) :
            KeptFaces(l) = { Face(collected[CHOOSE i \in BestAt(l) : \A j \in BestAt(l) : i <= j]) }

\* two items of one link tie on the greatest score and differ otherwise
C10_Witness ==
    /\ pc = "returned"
    /\ \E l \in LinksOf(collected) :
          \E i, j \in BestAt(l) : Face(collected[i]) # Face(collected[j])

\* C6: the sources are fetched in the order of cfg.sources, a fetch that raises
\* stops nothing, and the items returned are those of the run whose
\* configuration names only the sources that did not raise.
C6_FailedSourceIsSkipped ==
    LET Ok(r) == ~r.raised
        kept == SelectSeq(fetchLog, Ok)
        without == [cfg EXCEPT !.sources = [i \in 1..Len(kept) |-> kept[i].url]]
    IN  /\ pc \in {"fetch", "returned"}
        /\ srcIdx = Len(fetchLog) + 1
        /\ \A i \in 1..Len(fetchLog) : fetchLog[i].url = cfg.sources[i]
        /\ pc = "returned" =>
              /\ Len(fetchLog) = Len(cfg.sources)
              /\ items = run_pipeline(without, since_days, today, kept, enrichment)

\* the first source raised, the second served an entry that was kept
C6_Witness ==
    /\ pc = "returned"
    /\ fetchLog[1].raised
    /\ ~fetchLog[2].raised
    /\ items # << >>

----------------------------------------------------------------------------
(* Claims about one entry *)

\* the one entry the feed served
Served == fetchLog[1].entries[1]

OneServed == Len(fetchLog) = 1 /\ Len(fetchLog[1].entries) = 1

WordsOf(e) == Range(normalize_text(e.title)) \cup Range(normalize_text(RawSummary(e)))

IsSubdomainOf(h, d) == \E k \in 1..Len(h) : Len(h) = k + Len(d) /\ SubSeq(h, k + 1, Len(h)) = d

Rule1(e) == \E d \in Range(cfg.domain_blocklist) : hostname(e.link) = d \/ IsSubdomainOf(hostname(e.link), d)

Rule2(e) == cfg.exclude_cjk /\ "U+4E2D" \in WordsOf(e)

Rule3(e) == Range(cfg.exclude_patterns) \cap WordsOf(e) # {}

Rule4(e) == cfg.include_patterns # << >> /\ Range(cfg.include_patterns) \cap WordsOf(e) = {}

Eligible(e) ==
    /\ normalize_text(e.title) # << >>
    /\ e.link # NoLink
    /\ to_date_yyyy_mm_dd(e, today).day >= today - since_days

\* C4: an entry with a title (as normalised) and a link, dated inside the window,
\* yields an item exactly when none of the four exclusion rules applies.
C4_FourExclusionRules ==
    (OneServed /\ Eligible(Served)) =>
        (collected # << >> <=> ~(Rule1(Served) \/ Rule2(Served) \/ Rule3(Served) \/ Rule4(Served)))

\* a title with U+4E2D that passes rules 1, 3 and 4 is rejected under exclude_cjk
C4_Witness ==
    /\ OneServed
    /\ Eligible(Served)
    /\ "U+4E2D" \in Range(Served.title)
    /\ cfg.exclude_cjk
    /\ cfg.domain_blocklist # << >>
    /\ cfg.include_patterns # << >>
    /\ ~(Rule1(Served) \/ Rule3(Served) \/ Rule4(Served))
    /\ collected = << >>

TierBase(h) == 1 + (IF h \in HIGH_SOURCES \cup MID_SOURCES THEN 1 ELSE 0)
                 + (IF h \in HIGH_SOURCES THEN 1 ELSE 0)

\* C5: the score of every item is the base of its host's tier (3, 2, 1) plus 2
\* for the resolution pattern, 1 for the brightness pattern and 1 for the matte
\* pattern; it is between 1 and 7.
C5_HostTierScore ==
    \A it \in Range(collected) \cup Range(items) :
        /\ it.score = TierBase(it.host)
                      + (IF RES_RE(FullText(Served)) THEN 2 ELSE 0)
                      + (IF NITS_RE(FullText(Served)) THEN 1 ELSE 0)
                      + (IF MATTE_RE(FullText(Served)) THEN 1 ELSE 0)
        /\ it.score >= 1
        /\ it.score <= 7

\* an entry of an official host that matches the three patterns scores 7
C5_Witness ==
    /\ pc = "returned"
    /\ \E i \in 1..Len(items) :
          /\ items[i].host \in HIGH_SOURCES
          /\ items[i].score = 7
          /\ RES_RE(FullText(Served)) /\ NITS_RE(FullText(Served)) /\ MATTE_RE(FullText(Served))

----------------------------------------------------------------------------
(* Claims about write_json and the output stage of main *)

\* write_json of this run has returned, and nothing has touched the file since
JustMerged == pc = "write_manifest"

\* the historical records, and the records of this run's items
Historical == { x \in Range(OldData(prior)) : IsLinked(x) }

Current == { ItemRecord(items[i]) : i \in 1..Len(items) }

Written == Range(dataFile.elems)

\* age in days of a record with an ISO date
Age(x) == today - x.date.day

Retained(x) == x.date.iso => Age(x) <= RetentionDays

\* C2: for a link of both the history and the run's items the file holds the
\* record of the run's item and no other; a historical record whose link the run
\* does not have is carried over as it is when retention keeps it.
C2_NewRecordWins ==
    JustMerged =>
        /\ \A n \in Current :
              (\E h \in Historical : h.link = n.link) =>
                  { y \in Written : y.link = n.link } = (IF Retained(n) THEN {n} ELSE {})
        /\ \A h \in Historical :
              (\A n \in Current : n.link # h.link) =>
                  { y \in Written : y.link = h.link } = (IF Retained(h) THEN {h} ELSE {})

\* the historical record of a link has the higher score and the later date, and
\* the file holds the record of the run's item
C2_Witness ==
    /\ JustMerged
    /\ \E h \in Historical, n \in Current :
          /\ h.link = n.link
          /\ h.score > n.score
          /\ h.date.iso /\ n.date.iso /\ h.date.day > n.date.day
          /\ n \in Written
          /\ h \notin Written
    /\ \E h \in Historical : h \in Written

\* the records write_json chooses among: every record of the run, and the
\* historical records of the other links
Candidates == Current \cup { h \in Historical : \A n \in Current : n.link # h.link }

\* C3: a record dated 365 days before today is written, one dated 366 days
\* before today is not, and one whose date is no ISO date is written.
C3_RetentionBoundary ==
    JustMerged =>
        \A x \in Candidates :
            /\ (x.date.iso /\ Age(x) = 365) => x \in Written
            /\ (x.date.iso /\ Age(x) = 366) => x \notin Written
            /\ ~x.date.iso => x \in Written

\* the three cases at once, and the boundary on both a historical and a new record
C3_Witness ==
    /\ JustMerged
    /\ \E x \in Historical \cap Candidates : x.date.iso /\ Age(x) = 365 /\ x \in Written
    /\ \E x \in Historical \cap Candidates : x.date.iso /\ Age(x) = 366 /\ x \notin Written
    /\ \E x \in Candidates : ~x.date.iso /\ x \in Written
    /\ \E x \in Current : Age(x) = 365 /\ x \in Written

\* C7: with no new item, on a file write_json wrote, write_json writes the
\* records of that file that retention keeps today, as they are and in their
\* order; on the day the file was written that is the file.
C7_RerunKeepsStore ==
    (JustMerged /\ items = << >> /\ prior.origin = "tracker" /\ prior.kind = "array") =>
        /\ dataFile.elems = SelectSeq(prior.elems, Retained)
        /\ dataFile.kind = "array"
        /\ prior.mtime = today => dataFile.elems = prior.elems

\* a file of two records of one date, in the order write_json gave them
C7_Witness ==
    /\ JustMerged
    /\ items = << >>
    /\ prior.origin = "tracker"
    /\ prior.kind = "array"
    /\ Len(prior.elems) = 2
    /\ prior.elems[1].date = prior.elems[2].date
    /\ dataFile.elems = prior.elems

\* the historical file cannot be read, or is JSON that is no array
Corrupt(f) == f.kind \in {"unreadable", "scalar", "object"}

\* C8 as stated: on a corrupt historical file write_json does not fail and
\* writes exactly the run's records that retention keeps.
C8_CorruptHistoryIsEmpty ==
    (Corrupt(prior) /\ pc \in {"write_manifest", "done", "failed"}) =>
        /\ pc # "failed"
        /\ dataFile.kind = "array"
        /\ Written = { n \in Current : Retained(n) }

\* C9 as stated: a run that ends early, killed or by an exception, leaves the
\* report, the data file and the manifest as it found them.
C9_EarlyEndLeavesArtifacts ==
    pc \in {"killed", "failed"} =>
        /\ report.status = "prior"
        /\ dataFile = prior
        /\ manifest.status = "prior"

----------------------------------------------------------------------------
(* The window of a run: one run of main under every pairing of a command     *)
(* line (no --since-days, or --since-days 0, 7, 14, 30) with a configuration  *)
(* (no meta.window_days, or meta.window_days 7, 30).                          *)

\* int((raw.get("meta", {}) or {}).get("window_days", 14))
load_window_days(meta) == IF meta = << >> THEN DefaultWindowDays ELSE meta[1]

WindowConfigs ==
    { [MainConfig EXCEPT !.window_days = load_window_days(meta)] :
        meta \in { << >>, <<7>>, <<30>> } }

WindowCli == { << >>, <<0>>, <<7>>, <<14>>, <<30>> }

InitWindow ==
    /\ today = Day0
    /\ argv = << >>
    /\ cfg \in WindowConfigs
    /\ enrichment \in BOOLEAN
    /\ since_days = 0
    /\ pc = "idle"
    /\ srcIdx = 1
    /\ fetchLog = << >>
    /\ collected = << >>
    /\ items = << >>
    /\ report = PriorArtifact
    /\ dataFile = AbsentFile
    /\ manifest = PriorArtifact
    /\ prior = AbsentFile
    /\ runs = 0

NextWindow ==
    \/ StartMain(WindowCli)
    \/ RunPipeline
    \/ WriteMarkdown
    \/ WriteJson
    \/ WriteManifest

SpecWindow == InitWindow /\ [][NextWindow]_vars

\* C11 as stated: the window of the run, passed to run_pipeline and recorded in
\* the manifest, is the --since-days value when the option is given and the
\* configuration's window_days when it is not.
C11_WindowSelection ==
    pc \in Running \cup {"done"} =>
        /\ since_days = (IF argv # << >> THEN argv[1] ELSE cfg.window_days)
        /\ manifest.status = "written" => manifest.info = << since_days >>

====
